---- MODULE Spec2Model ----
(***************************************************************************)
(* Layout-aware segmentation engine of domain_qa (src/src/chunking.py).    *)
(*                                                                         *)
(* Texts are sequences of one-character strings.  Optional values are      *)
(* sequences of length 0 (None) or 1 (a known value), so that None and 0   *)
(* stay distinct.  Coordinates and font sizes are integers.                *)
(***************************************************************************)
EXTENDS Integers, Sequences, FiniteSets, TLC

\* ------------------------------------------------------------------ bounds
\* Longest text drawn as input of the splitter specification.
MaxLen == 6
\* Largest character budget drawn as input of the splitter specification.
MaxChars == 4
\* Longest element list handed to chunk_elements.
MaxElems == 2

\* ------------------------------------------------------- optional values
None == <<>>
Some(v) == <<v>>
IsNone(o) == o = <<>>
Known(o) == o # <<>>
Val(o) == o[1]

\* ------------------------------------------------------------ characters
\* str.strip() and the regex class \s
WS == {" ", "\n", "\t"}
\* the regex class [.!?]
ENDERS == {".", "!", "?"}
\* the regex class [A-Z]
UPPER == {"A", "B", "C", "D", "E", "F", "G", "H", "I", "J", "K", "L", "M",
          "N", "O", "P", "Q", "R", "S", "T", "U", "V", "W", "X", "Y", "Z"}
\* the regex class [A-Z(\[]
OPENERS == UPPER \cup {"(", "["}

SetMin(S) == CHOOSE x \in S : \A y \in S : x <= y
SetMax(S) == CHOOSE x \in S : \A y \in S : y <= x

\* str.strip(): the text without its leading and trailing whitespace.
Strip(t) ==
    LET nz == {k \in 1..Len(t) : t[k] \notin WS}
    IN  IF nz = {} THEN <<>>
        ELSE SubSeq(t, SetMin(nz),
                    IF t[Len(t)] \notin WS THEN Len(t) ELSE SetMax(nz))

\* " ".join(parts)
RECURSIVE JoinSp(_)
JoinSp(parts) ==
    IF parts = <<>> THEN <<>>
    ELSE IF Len(parts) = 1 THEN parts[1]
    ELSE parts[1] \o <<" ">> \o JoinSp(Tail(parts))

\* ------------------------------------------------------------- _sentences
\* The matches with the lookahead left out: a cut before any character.
\* The matches of (?<=[.!?])\s+(?=[A-Z(\[]) in t, as <<first, last>> index
\* pairs: a whitespace run starting right after an ender and ending right
\* before an opener.  \s+ cannot stop short of the run's end (the lookahead
\* would see whitespace) nor start inside it (the lookbehind would).
CutsBeforeAnything(t) ==
    LET starts == {a \in 2..Len(t) : t[a] \in WS /\ t[a - 1] \in ENDERS}
        RunEnd(a) == LET after == {k \in a..Len(t) : t[k] \notin WS}
                     IN  IF after = {} THEN Len(t) ELSE SetMin(after) - 1
    IN  {<<a, RunEnd(a)>> : a \in {s \in starts : RunEnd(s) < Len(t)}}
Cuts(t) ==
    LET starts == {a \in 2..Len(t) : t[a] \in WS /\ t[a - 1] \in ENDERS}
        RunEnd(a) == LET after == {k \in a..Len(t) : t[k] \notin WS}
                     IN  IF after = {} THEN Len(t) ELSE SetMin(after) - 1
    IN  {<<a, RunEnd(a)>> : a \in {s \in starts :
              RunEnd(s) < Len(t) /\ t[RunEnd(s) + 1] \in OPENERS}}

\* re.split(pattern, t): the pieces of t between the matches, in order.
ReSplit(t) ==
    LET cuts == Cuts(t)
        begins == {1} \cup {c[2] + 1 : c \in cuts}
        Nth(k) == CHOOSE b \in begins : Cardinality({x \in begins : x < b}) = k - 1
        EndOf(b) == LET later == {c[1] : c \in {d \in cuts : d[1] > b}}
                    IN  IF later = {} THEN Len(t) ELSE SetMin(later) - 1
    IN  [k \in 1..Cardinality(begins) |-> SubSeq(t, Nth(k), EndOf(Nth(k)))]

NonBlank(p) == Strip(p) # <<>>

sentences(text) ==
    LET t == Strip(text)
        kept == SelectSeq(ReSplit(t), NonBlank)
    IN  IF t = <<>> THEN <<>>
        ELSE [k \in 1..Len(kept) |-> Strip(kept[k])]

\* -------------------------------------------------------- _split_by_length
\* [text[i : i + max_chars] for i in range(0, len(text), max_chars)]
Slices(text, max_chars) ==
    LET n == (Len(text) + max_chars - 1) \div max_chars
    IN  [k \in 1..n |-> SubSeq(text, (k - 1) * max_chars + 1,
                               IF k * max_chars < Len(text) THEN k * max_chars
                               ELSE Len(text))]

\* The loop with the joining space left out of the length test.
RECURSIVE PackNoSpace(_, _, _)
PackNoSpace(sents, n, max_chars) ==
    IF n = 0 THEN [out |-> <<>>, cur |-> <<>>]
    ELSE LET p == PackNoSpace(sents, n - 1, max_chars)
             s == sents[n]
         IN  IF p.cur = <<>> THEN [out |-> p.out, cur |-> s]
             ELSE IF Len(p.cur) + Len(s) <= max_chars
                  THEN [out |-> p.out, cur |-> p.cur \o <<" ">> \o s]
                  ELSE [out |-> Append(p.out, p.cur), cur |-> s]

\* The loop closing a segment that the next sentence would fill exactly.
RECURSIVE PackStrict(_, _, _)
PackStrict(sents, n, max_chars) ==
    IF n = 0 THEN [out |-> <<>>, cur |-> <<>>]
    ELSE LET p == PackStrict(sents, n - 1, max_chars)
             s == sents[n]
         IN  IF p.cur = <<>> THEN [out |-> p.out, cur |-> s]
             ELSE IF Len(p.cur) + 1 + Len(s) < max_chars
                  THEN [out |-> p.out, cur |-> p.cur \o <<" ">> \o s]
                  ELSE [out |-> Append(p.out, p.cur), cur |-> s]

\* The loop over sents: out and cur after the sentences sents[1..n].
RECURSIVE Pack(_, _, _)
Pack(sents, n, max_chars) ==
    IF n = 0 THEN [out |-> <<>>, cur |-> <<>>]
    ELSE LET p == Pack(sents, n - 1, max_chars)
             s == sents[n]
         IN  IF p.cur = <<>> THEN [out |-> p.out, cur |-> s]
             ELSE IF Len(p.cur) + 1 + Len(s) <= max_chars
                  THEN [out |-> p.out, cur |-> p.cur \o <<" ">> \o s]
                  ELSE [out |-> Append(p.out, p.cur), cur |-> s]

\* The splitter cutting an oversize sentence down to the budget.
split_by_length_truncating(text, max_chars) ==
    LET sents == sentences(text)
        p == Pack(sents, Len(sents), max_chars)
        all == IF p.cur # <<>> THEN Append(p.out, p.cur) ELSE p.out
    IN  IF Len(text) <= max_chars THEN <<text>>
        ELSE IF sents = <<>> THEN Slices(text, max_chars)
        ELSE [k \in 1..Len(all) |->
                 IF Len(all[k]) > max_chars THEN SubSeq(all[k], 1, max_chars)
                 ELSE all[k]]

split_by_length(text, max_chars) ==
    LET sents == sentences(text)
        p == Pack(sents, Len(sents), max_chars)
    IN  IF Len(text) <= max_chars THEN <<text>>
        ELSE IF sents = <<>> THEN Slices(text, max_chars)
        ELSE IF p.cur # <<>> THEN Append(p.out, p.cur) ELSE p.out

\* ------------------------------------------------------------ raw elements
\* A raw metadata scalar as the upstream partitioner may leave it: absent
\* (None), a number, or a truthy value that int()/float() reject.
RawNone == [k |-> "none", v |-> 0]
RawNum(n) == [k |-> "num", v |-> n]
RawBad == [k |-> "bad", v |-> 0]
\* Python truthiness of a raw scalar (the "or" of _get_page).
Truthy(r) == r.k = "bad" \/ (r.k = "num" /\ r.v # 0)

\* A text that is not a str (and is truthy); no character is that long.
NonStrText == <<"<object>">>
IsStr(t) == t # NonStrText

\* Raw category and text attributes: k is "str", "missing", "none" or "nonstr".
Attr(k, v) == [k |-> k, v |-> v]

\* One point of a coordinates structure: kind "dict" ({x, y}), "pair" (a list
\* or tuple of at least two numbers), "short" (a tuple of fewer than two),
\* "other" (neither a dict nor a list/tuple) or "badnum" (a dict or pair whose
\* x or y float() rejects).
Pt(kind, x, y) == [kind |-> kind, x |-> x, y |-> y]

Element(cat, tbl, txt, pn, pg, pts, fs) ==
    [category |-> cat, is_table |-> tbl, text |-> txt, page_number |-> pn,
     page |-> pg, points |-> pts, font_size |-> fs]

BOUNDARY_CATS == {"table", "image", "figure", "pagebreak"}
TITLE_CATS == {"title", "subtitle", "header"}

\* str.lower() on the category names the model draws.
Lower(c) ==
    CASE c = "Title" -> "title"
      [] c = "NarrativeText" -> "narrativetext"
      [] c = "Table" -> "table"
      [] c = "Image" -> "image"
      [] c = "Header" -> "header"
      [] c = "PageBreak" -> "pagebreak"
      [] c = "Figure" -> "figure"
      [] OTHER -> c

\* The characters of a boundary category name (text or bcat, line 173).
Chars(c) ==
    CASE c = "image" -> <<"i", "m", "a", "g", "e">>
      [] c = "figure" -> <<"f", "i", "g", "u", "r", "e">>
      [] c = "pagebreak" -> <<"p", "a", "g", "e", "b", "r", "e", "a", "k">>
      [] c = "table" -> <<"t", "a", "b", "l", "e">>
      [] OTHER -> <<"e", "l", "e", "m", "e", "n", "t">>

\* ------------------------------------------------------ Element Normalizer
get_page(e) ==
    LET pg == IF Truthy(e.page_number) THEN e.page_number ELSE e.page
    IN  IF pg.k = "num" THEN Some(pg.v) ELSE None

NoCoords == [x0 |-> None, y0 |-> None, x1 |-> None, y1 |-> None]

get_coords(e) ==
    LET pts == e.points
        used == {k \in 1..Len(pts) : pts[k].kind \in {"dict", "pair", "badnum"}}
        xs == {pts[k].x : k \in used}
        ys == {pts[k].y : k \in used}
    IN  IF pts = <<>> THEN NoCoords
        ELSE IF \E k \in used : pts[k].kind = "badnum" THEN NoCoords
        ELSE IF used = {} THEN NoCoords
        ELSE [x0 |-> Some(SetMin(xs)), y0 |-> Some(SetMin(ys)),
              x1 |-> Some(SetMax(xs)), y1 |-> Some(SetMax(ys))]

get_font_size(e) ==
    IF e.font_size.k = "num" THEN Some(e.font_size.v) ELSE None

\* ---------------------------------------------------- Reading-Order Sorter
\* page or 0;  y0 if y0 is not None else 0.0;  x0 likewise
OrZero(o) == IF Known(o) THEN Val(o) ELSE 0

\* One tuple of the sortable list (lines 133-144); pos is the element's
\* position in the input list, standing for the identity of the object e.
SortTuple(e, pos) ==
    LET c == get_coords(e)
    IN  [page |-> OrZero(get_page(e)), y0 |-> OrZero(c.y0), x0 |-> OrZero(c.x0),
         e |-> e, ex0 |-> c.x0, ey0 |-> c.y0, ex1 |-> c.x1, ey1 |-> c.y1,
         pos |-> pos]

\* The key (t[0], t[1], t[2]) of a is strictly below that of b.
KeyLess(a, b) ==
    \/ a.page < b.page
    \/ a.page = b.page /\ a.y0 < b.y0
    \/ a.page = b.page /\ a.y0 = b.y0 /\ a.x0 < b.x0

\* t put before the entries whose key equals t's: an unstable sort.
InsertBeforeEquals(s, t) ==
    LET n == Cardinality({k \in 1..Len(s) : KeyLess(s[k], t)})
    IN  SubSeq(s, 1, n) \o <<t>> \o SubSeq(s, n + 1, Len(s))

\* t put into the sorted list s after every entry whose key is not above t's.
InsertAfterEquals(s, t) ==
    LET n == Cardinality({k \in 1..Len(s) : ~KeyLess(t, s[k])})
    IN  SubSeq(s, 1, n) \o <<t>> \o SubSeq(s, n + 1, Len(s))

\* list.sort(key=...): stable, ascending.
RECURSIVE SortFirst(_, _)
SortFirst(ts, n) ==
    IF n = 0 THEN <<>>
    ELSE InsertAfterEquals(SortFirst(ts, n - 1), ts[n])

Sortable(elems) ==
    SortFirst([k \in 1..Len(elems) |-> SortTuple(elems[k], k)], Len(elems))

\* ------------------------------------------------------------------ state
VARIABLES
    elements,    \* chunk_elements' argument: the element list
    pdf_path,    \* chunk_elements' argument: None or Some(path)
    max_chars,   \* config.MAX_CHARS_NARRATIVE
    pc,          \* where the call stands
    sortable,    \* _build_blocks_from_elements: the sorted tuples
    i,           \* index of the next tuple of sortable to process
    blocks,      \* the block list being built, then the blocks assembled
    cur_text,    \* open buffer: list of element texts
    cur_meta,    \* metadata recorded for the open block
    cur_src,     \* history: sorted positions of the elements in cur_text
    prev_page, prev_y1, prev_font,   \* trackers
    fb_doc,      \* _fallback_blocks_pymupdf: the opened document (its pages)
    fb_open,     \* whether the document is held open
    fb_pno,      \* page index (0-based, as pno)
    fb_bno,      \* index of the next region of the page
    fb_failed,   \* whether an exception was swallowed
    out,         \* chunk_elements: the chunk list
    j,           \* index of the next block to assemble
    sp_text, sp_max, sp_sents, sp_out, sp_pc,  \* the splitter called alone
    nm_e,        \* the accessors called alone: the element
    nm_page, nm_coords, nm_font,   \* what _get_page, _get_coords, _get_font_size gave
    nm_pc        \* which accessors were called

vars == <<elements, pdf_path, max_chars, pc, sortable, i, blocks, cur_text,
          cur_meta, cur_src, prev_page, prev_y1, prev_font, fb_doc, fb_open,
          fb_pno, fb_bno, fb_failed, out, j, sp_text, sp_max, sp_sents,
          sp_out, sp_pc, nm_e, nm_page, nm_coords, nm_font, nm_pc>>

builder_vars == <<sortable, i, blocks, cur_text, cur_meta, cur_src,
                  prev_page, prev_y1, prev_font>>
fallback_vars == <<fb_doc, fb_open, fb_pno, fb_bno, fb_failed>>
splitter_vars == <<sp_text, sp_max, sp_sents, sp_out, sp_pc>>
normalizer_vars == <<nm_e, nm_page, nm_coords, nm_font, nm_pc>>
input_vars == <<elements, pdf_path, max_chars>>

\* ----------------------------------------------------------- Block Builder
\* BlockMeta(...) and BlockMeta()
BlockMeta(page, x0, y0, x1, y1, fs) ==
    [page_number |-> page, x0 |-> x0, y0 |-> y0, x1 |-> x1, y1 |-> y1,
     font_size |-> fs]
EmptyMeta == BlockMeta(None, None, None, None, None, None)

\* Block(text, category, metadata); src is history: the sorted positions of
\* the elements whose text the block holds.
Block(text, category, metadata, src) ==
    [text |-> text, category |-> category, metadata |-> metadata, src |-> src]

\* y_gap_threshold's default
Y_GAP_THRESHOLD == 30

\* getattr(e, "category", "").lower() raises on None and on a non-str.
CategoryRaises(e) == e.category.k \in {"none", "nonstr"}
CatOf(e) == IF e.category.k = "str" THEN Lower(e.category.v) ELSE ""
\* getattr(e, "text", "") or ""
TextOf(e) ==
    CASE e.text.k = "str" -> e.text.v
      [] e.text.k = "nonstr" -> NonStrText
      [] OTHER -> <<>>

IsBoundary(e) == CatOf(e) \in BOUNDARY_CATS \/ e.is_table

\* The page the loop hands on: t[0] of the tuple, "page or 0" (line 162).
TuplePage(t) == Some(t.page)

\* flush_cur: " ".join of a list holding a non-str raises TypeError.
IsTruthyText(t) == t # <<>>
FlushRaises(texts) ==
    texts # <<>> /\ \E k \in 1..Len(texts) : texts[k] = NonStrText
FlushText(texts) == Strip(JoinSp(SelectSeq(texts, IsTruthyText)))
\* flush_cur without its lines 159-160: the open buffer is not reset.
FlushCurNoReset(blks, texts, meta, src) ==
    [blocks |-> IF texts # <<>> /\ FlushText(texts) # <<>>
                THEN Append(blks, Block(FlushText(texts), "text", meta, src))
                ELSE blks,
     cur_text |-> texts, cur_meta |-> meta, cur_src |-> src]
\* flush_cur without the test of line 157: a blank buffer is emitted too.
FlushCurKeepingBlank(blks, texts, meta, src) ==
    [blocks |-> IF texts # <<>>
                THEN Append(blks, Block(FlushText(texts), "text", meta, src))
                ELSE blks,
     cur_text |-> <<>>, cur_meta |-> EmptyMeta, cur_src |-> <<>>]
\* flush_cur (when it does not raise): the block list and the open buffer
\* it leaves.
FlushCur(blks, texts, meta, src) ==
    [blocks |-> IF texts # <<>> /\ FlushText(texts) # <<>>
                THEN Append(blks, Block(FlushText(texts), "text", meta, src))
                ELSE blks,
     cur_text |-> <<>>, cur_meta |-> EmptyMeta, cur_src |-> <<>>]

\* fs / max(prev_font, 1e-6) >= 1.2 on integer sizes: the quotient by a
\* positive prev_font, and by 1e-6 when prev_font is below it.
RatioFires(prev, fs) == IF prev >= 1 THEN 10 * fs >= 12 * prev ELSE fs >= 1
\* the trigger with the absolute clause left out
FontJumpRatioOnly(prev, fs) ==
    /\ Known(prev)
    /\ Known(fs)
    /\ Val(prev) # 0 /\ RatioFires(Val(prev), Val(fs))
\* the trigger firing on a change of size in either direction
FontJumpEitherWay(prev, fs) ==
    /\ Known(prev)
    /\ Known(fs)
    /\ \/ Val(fs) - Val(prev) >= 2
       \/ Val(prev) - Val(fs) >= 2
       \/ Val(prev) # 0 /\ RatioFires(Val(prev), Val(fs))
FontJump(prev, fs) ==
    /\ Known(prev)
    /\ Known(fs)
    /\ \/ Val(fs) - Val(prev) >= 2
       \/ Val(prev) # 0 /\ RatioFires(Val(prev), Val(fs))
\* the trigger firing already at a gap equal to the threshold
GapExceedsOrEquals(py1, ey0) ==
    Known(py1) /\ Known(ey0) /\ Val(ey0) - Val(py1) >= Y_GAP_THRESHOLD
GapExceeds(py1, ey0) ==
    Known(py1) /\ Known(ey0) /\ Val(ey0) - Val(py1) > Y_GAP_THRESHOLD

StartNew(t) ==
    \/ IsNone(prev_page) \/ TuplePage(t) # prev_page
    \/ CatOf(t.e) \in TITLE_CATS
    \/ FontJump(prev_font, get_font_size(t.e))
    \/ GapExceeds(prev_y1, t.ey0)

ElementMeta(t) ==
    BlockMeta(TuplePage(t), t.ex0, t.ey0, t.ex1, t.ey1, get_font_size(t.e))


\* chunk_elements lines 251-252
ReturnEmpty ==
    /\ pc = "start"
    /\ elements = <<>>
    /\ pc' = "done"
    /\ UNCHANGED <<input_vars, builder_vars, fallback_vars, out, j, splitter_vars, normalizer_vars>>

\* lines 128-151: the sort and the fold's initial state
SortElements ==
    /\ pc = "start"
    /\ elements # <<>>
    /\ sortable' = Sortable(elements)
    /\ i' = 1
    /\ pc' = "fold"
    /\ UNCHANGED <<input_vars, blocks, cur_text, cur_meta, cur_src, prev_page,
                   prev_y1, prev_font, fallback_vars, out, j, splitter_vars, normalizer_vars>>

Raise(where) ==
    /\ pc' = where
    /\ UNCHANGED <<input_vars, builder_vars, fallback_vars, out, j, splitter_vars, normalizer_vars>>

\* line 163 on an element whose category is None or not a str
CategoryError ==
    /\ pc = "fold"
    /\ i <= Len(sortable)
    /\ CategoryRaises(sortable[i].e)
    /\ Raise("raised_builder")

\* the tracker kept when the boundary element lacks the value, as for an
\* ordinary element
BoundaryTrackerKeepsKnown(own, prev) == IF Known(own) THEN own ELSE prev
\* line 175: prev_y1 and prev_font take the boundary element's own value
BoundaryTracker(own, prev) == own

\* lines 167-176
BoundaryElement ==
    /\ pc = "fold"
    /\ i <= Len(sortable)
    /\ ~CategoryRaises(sortable[i].e)
    /\ IsBoundary(sortable[i].e)
    /\ LET t == sortable[i]
           cat == CatOf(t.e)
           text == TextOf(t.e)
           bcat == IF t.e.is_table THEN "table"
                   ELSE IF cat # "" THEN cat ELSE "element"
           btext == IF bcat = "table" THEN text
                    ELSE IF text # <<>> THEN text ELSE Chars(bcat)
           f == FlushCur(blocks, cur_text, cur_meta, cur_src)
       IN  IF FlushRaises(cur_text) THEN Raise("raised_builder")
           ELSE /\ blocks' = Append(f.blocks, Block(btext, bcat, ElementMeta(t), <<i>>))
                /\ cur_text' = f.cur_text
                /\ cur_meta' = f.cur_meta
                /\ cur_src' = f.cur_src
                /\ prev_page' = TuplePage(t)
                /\ prev_y1' = BoundaryTracker(t.ey1, prev_y1)
                /\ prev_font' = BoundaryTracker(get_font_size(t.e), prev_font)
                /\ i' = i + 1
                /\ UNCHANGED <<input_vars, pc, sortable, fallback_vars, out, j,
                               splitter_vars, normalizer_vars>>

\* lines 178-207
OrdinaryElement ==
    /\ pc = "fold"
    /\ i <= Len(sortable)
    /\ ~CategoryRaises(sortable[i].e)
    /\ ~IsBoundary(sortable[i].e)
    /\ LET t == sortable[i]
           text == TextOf(t.e)
           fs == get_font_size(t.e)
           start_new == StartNew(t)
           f == FlushCur(blocks, cur_text, cur_meta, cur_src)
       IN  IF start_new /\ FlushRaises(cur_text) THEN Raise("raised_builder")
           ELSE /\ blocks' = IF start_new THEN f.blocks ELSE blocks
                /\ cur_meta' = IF start_new THEN ElementMeta(t) ELSE cur_meta
                /\ cur_text' = Append(IF start_new THEN f.cur_text ELSE cur_text, text)
                /\ cur_src' = Append(IF start_new THEN f.cur_src ELSE cur_src, i)
                /\ prev_page' = TuplePage(t)
                /\ prev_y1' = IF Known(t.ey1) THEN t.ey1 ELSE prev_y1
                /\ prev_font' = IF Known(fs) THEN fs ELSE prev_font
                /\ i' = i + 1
                /\ UNCHANGED <<input_vars, pc, sortable, fallback_vars, out, j,
                               splitter_vars, normalizer_vars>>

\* the fallback asked for whenever no block would yield a chunk
NeedsFallbackNoText(blks) ==
    \A m \in 1..Len(blks) : blks[m].category \in {"image", "figure", "pagebreak"}
\* chunk_elements line 255: if not blocks
NeedsFallback(blks) == blks = <<>>

\* lines 209-210, then chunk_elements lines 254-256
FinalFlush ==
    /\ pc = "fold"
    /\ i > Len(sortable)
    /\ IF FlushRaises(cur_text) THEN Raise("raised_builder")
       ELSE /\ blocks' = FlushCur(blocks, cur_text, cur_meta, cur_src).blocks
            /\ cur_text' = FlushCur(blocks, cur_text, cur_meta, cur_src).cur_text
            /\ cur_meta' = FlushCur(blocks, cur_text, cur_meta, cur_src).cur_meta
            /\ cur_src' = FlushCur(blocks, cur_text, cur_meta, cur_src).cur_src
            /\ pc' = IF NeedsFallback(blocks') THEN "fallback" ELSE "assemble"
            /\ UNCHANGED <<input_vars, sortable, i, prev_page, prev_y1, prev_font,
                           fallback_vars, out, j, splitter_vars, normalizer_vars>>

\* ------------------------------------------------------ Fallback Extractor
\* A text region as page.get_text("blocks") gives it: a tuple of n items,
\* the first five being x0, y0, x1, y1 (raw scalars) and the text.
Region(n, x0, y0, x1, y1, txt) ==
    [n |-> n, x0 |-> x0, y0 |-> y0, x1 |-> x1, y1 |-> y1, txt |-> txt]
\* A page: readable (doc[pno] and get_text succeed) or not, and its regions.
Page(ok, regions) == [ok |-> ok, regions |-> regions]

RegionSkipped(b) == b.n < 5 \/ ~IsStr(b.txt) \/ Strip(b.txt) = <<>>
\* float(x0) ... float(y1) on a kept region
RegionRaises(b) == \E c \in {b.x0, b.y0, b.x1, b.y1} : c.k # "num"
RegionBlock(b, pno) ==
    Block(Strip(b.txt), "text",
          BlockMeta(Some(pno + 1), Some(b.x0.v), Some(b.y0.v), Some(b.x1.v),
                    Some(b.y1.v), None),
          <<>>)

\* "Aa."
T_Aa == <<"A", "a", ".">>
Box(x0, y0, x1, y1) ==
    <<Pt("pair", x0, y0), Pt("pair", x1, y0), Pt("pair", x1, y1), Pt("pair", x0, y1)>>
GoodRegion(txt) == Region(7, RawNum(0), RawNum(10), RawNum(50), RawNum(20), txt)

\* The raw page sources fitz.open may give.
Docs ==
    { <<>>,
      <<Page(TRUE, <<GoodRegion(T_Aa), GoodRegion(<<" ">>)>>),
        Page(TRUE, <<Region(4, RawNum(0), RawNum(0), RawNum(0), RawNum(0), T_Aa),
                     GoodRegion(<<"B", ".", " ">>)>>)>>,
      <<Page(TRUE, <<GoodRegion(T_Aa)>>), Page(FALSE, <<>>)>>,
      <<Page(TRUE, <<GoodRegion(NonStrText), GoodRegion(T_Aa),
                     Region(5, RawNum(0), RawBad, RawNum(1), RawNum(1), T_Aa),
                     GoodRegion(T_Aa)>>)>> }

\* What a swallowed exception leaves as the function's result (lines 241-243).
BlocksOnFailure(blks) == blks

ToAssemble(blks) ==
    /\ blocks' = blks
    /\ pc' = "assemble"
    /\ UNCHANGED <<input_vars, sortable, i, cur_text, cur_meta, cur_src,
                   prev_page, prev_y1, prev_font, out, j, splitter_vars, normalizer_vars>>

\* lines 216-217
FallbackNoSource ==
    /\ pc = "fallback"
    /\ IsNone(pdf_path)
    /\ ToAssemble(<<>>)
    /\ UNCHANGED fallback_vars

\* lines 218-221: the import of the optional library fails
FallbackImportError ==
    /\ pc = "fallback"
    /\ Known(pdf_path)
    /\ ToAssemble(<<>>)
    /\ UNCHANGED fallback_vars

\* line 224 raising
FallbackOpenError ==
    /\ pc = "fallback"
    /\ Known(pdf_path)
    /\ fb_failed' = TRUE
    /\ ToAssemble(BlocksOnFailure(<<>>))
    /\ UNCHANGED <<fb_doc, fb_open, fb_pno, fb_bno>>

\* line 224: the document is opened (and nothing below closes it)
FallbackOpen ==
    /\ pc = "fallback"
    /\ Known(pdf_path)
    /\ \E d \in Docs :
          /\ fb_doc' = d
          /\ fb_open' = TRUE
          /\ fb_pno' = 0
          /\ fb_bno' = 1
    /\ pc' = "fb_read"
    /\ UNCHANGED <<input_vars, builder_vars, fb_failed, out, j, splitter_vars, normalizer_vars>>

\* lines 226-227 raising on a page
FallbackPageError ==
    /\ pc = "fb_read"
    /\ fb_pno < Len(fb_doc)
    /\ ~fb_doc[fb_pno + 1].ok
    /\ fb_failed' = TRUE
    /\ ToAssemble(BlocksOnFailure(blocks))
    /\ UNCHANGED <<fb_doc, fb_open, fb_pno, fb_bno>>

\* lines 228-240: one region of the current page
FallbackRegion ==
    /\ pc = "fb_read"
    /\ fb_pno < Len(fb_doc)
    /\ fb_doc[fb_pno + 1].ok
    /\ fb_bno <= Len(fb_doc[fb_pno + 1].regions)
    /\ LET b == fb_doc[fb_pno + 1].regions[fb_bno]
       IN  IF RegionSkipped(b)
           THEN /\ fb_bno' = fb_bno + 1
                /\ UNCHANGED <<input_vars, pc, builder_vars, fb_doc, fb_open,
                               fb_pno, fb_failed, out, j, splitter_vars, normalizer_vars>>
           ELSE IF RegionRaises(b)
           THEN /\ fb_failed' = TRUE
                /\ ToAssemble(BlocksOnFailure(blocks))
                /\ UNCHANGED <<fb_doc, fb_open, fb_pno, fb_bno>>
           ELSE /\ blocks' = Append(blocks, RegionBlock(b, fb_pno))
                /\ fb_bno' = fb_bno + 1
                /\ UNCHANGED <<input_vars, pc, sortable, i, cur_text, cur_meta,
                               cur_src, prev_page, prev_y1, prev_font, fb_doc,
                               fb_open, fb_pno, fb_failed, out, j, splitter_vars, normalizer_vars>>

\* line 225: the next page
FallbackNextPage ==
    /\ pc = "fb_read"
    /\ fb_pno < Len(fb_doc)
    /\ fb_doc[fb_pno + 1].ok
    /\ fb_bno > Len(fb_doc[fb_pno + 1].regions)
    /\ fb_pno' = fb_pno + 1
    /\ fb_bno' = 1
    /\ UNCHANGED <<input_vars, pc, builder_vars, fb_doc, fb_open, fb_failed,
                   out, j, splitter_vars, normalizer_vars>>

\* line 243 after the last page
FallbackReturn ==
    /\ pc = "fb_read"
    /\ fb_pno = Len(fb_doc)
    /\ ToAssemble(blocks)
    /\ UNCHANGED fallback_vars

\* ---------------------------------------------------------- Chunk Assembler
TABLE_MIN_CHARS == 800
\* max(800, int(0.6 * max_chars))
TableBudget(m) ==
    IF (6 * m) \div 10 > TABLE_MIN_CHARS THEN (6 * m) \div 10 ELSE TABLE_MIN_CHARS

\* A chunk; blk is history: the index of the block it was split from.
Chunk(text, category, metadata, blk) ==
    [text |-> text, category |-> category, metadata |-> metadata, blk |-> blk]

ChunksOf(b, category, budget, blk) ==
    LET parts == split_by_length(Strip(b.text), budget)
    IN  [k \in 1..Len(parts) |-> Chunk(parts[k], category, b.metadata, blk)]

\* out after the chunks cs of one block
Emit(cs) == out \o cs

\* the chunks of one block when every boundary block is emitted as it is
BlockChunksKeepAll(b, blk) ==
    IF b.category \in BOUNDARY_CATS \/ b.category = "table"
    THEN <<Chunk(b.text, b.category, b.metadata, blk)>>
    ELSE IF Strip(b.text) = <<>> THEN <<>>
    ELSE ChunksOf(b, "text", max_chars, blk)
\* lines 261-273: the chunks of one block
BlockChunks(b, blk) ==
    IF b.category \in BOUNDARY_CATS \/ b.category = "table"
    THEN IF b.category = "table" /\ Strip(b.text) # <<>>
         THEN ChunksOf(b, "table", TableBudget(max_chars), blk)
         ELSE <<>>
    ELSE IF Strip(b.text) = <<>> THEN <<>>
    ELSE ChunksOf(b, "text", max_chars, blk)

\* lines 260-273: one block
AssembleBlock ==
    /\ pc = "assemble"
    /\ j <= Len(blocks)
    /\ LET b == blocks[j]
       IN  IF b.category = "table" /\ ~IsStr(b.text)
           THEN Raise("raised_assembler")
           ELSE /\ out' = Emit(BlockChunks(b, j))
                /\ j' = j + 1
                /\ UNCHANGED <<input_vars, pc, builder_vars, fallback_vars,
                               splitter_vars, normalizer_vars>>

\* line 274
Return ==
    /\ pc = "assemble"
    /\ j > Len(blocks)
    /\ pc' = "done"
    /\ UNCHANGED <<input_vars, builder_vars, fallback_vars, out, j, splitter_vars, normalizer_vars>>

\* ------------------------------------------------------------------ inputs
Rep(c, n) == [k \in 1..n |-> c]
Str(v) == Attr("str", v)
Narrative == Str("NarrativeText")

T_Overview == <<"O", "v", "e", "r", "v", "i", "e", "w">>
T_Body == <<"S", "e", "n", "t", "e", "n", "c", "e", " ", "o", "n", "e", ".", " ",
            "S", "e", "n", "t", "e", "n", "c", "e", " ", "t", "w", "o", ".">>
T_Table == <<"A", "|", "B", "\n", "1", "|", "2">>
\* A table text of two sentences, each within the table budget, together not.
LongSentence == <<"A">> \o Rep("a", TABLE_MIN_CHARS \div 2) \o <<".">>
T_LongTable == LongSentence \o <<" ">> \o LongSentence

E_title == Element(Str("Title"), FALSE, Str(T_Overview), RawNum(1), RawNone,
                   Box(0, 60, 50, 70), RawNum(18))
E_body == Element(Narrative, FALSE, Str(T_Body), RawNum(1), RawNone,
                  Box(0, 90, 50, 100), RawNum(10))
E_table == Element(Str("Table"), TRUE, Str(T_Table), RawNum(1), RawNone,
                   Box(0, 120, 50, 130), RawNone)
E_f13 == Element(Narrative, FALSE, Str(<<"C", "c", ".">>), RawNum(1), RawNone,
                 Box(0, 128, 50, 138), RawNum(13))
E_f11 == Element(Narrative, FALSE, Str(<<"D", "d", ".">>), RawNum(1), RawNone,
                 Box(0, 115, 50, 125), RawNum(11))
E_far == Element(Narrative, FALSE, Str(<<"E", "e", ".">>), RawNum(1), RawNone,
                 Box(0, 140, 50, 150), RawNum(10))
E_bare == Element(Attr("missing", ""), FALSE, Str(<<"g", "g">>), RawNone, RawNone,
                  <<>>, RawNone)
E_nocat == Element(Attr("none", ""), FALSE, Str(T_Aa), RawNum(1), RawNone,
                   <<>>, RawNone)
E_objtext == Element(Narrative, FALSE, Attr("nonstr", <<>>), RawNone, RawNone,
                     <<>>, RawBad)
E_image == Element(Str("Image"), FALSE, Attr("none", <<>>), RawNum(1), RawNone,
                   <<>>, RawNone)
E_p2 == Element(Narrative, FALSE, Str(<<"H", "h", ".">>), RawNone, RawNum(2),
                <<Pt("dict", 0, 10), Pt("dict", 50, 20)>>, RawNum(10))
E_blank == Element(Narrative, FALSE, Str(<<" ", " ">>), RawNum(1), RawNone,
                   <<>>, RawNone)
E_col2 == Element(Narrative, FALSE, Str(<<"I", "i", ".">>), RawNum(1), RawNone,
                  Box(60, 90, 110, 100), RawNum(10))
E_f20 == Element(Narrative, FALSE, Str(<<"J", "j", ".">>), RawNum(1), RawNone,
                 Box(0, 75, 50, 85), RawNum(20))
\* Exactly the gap threshold below E_body.
E_edge == Element(Narrative, FALSE, Str(<<"F", "f", ".">>), RawNum(1), RawNone,
                  Box(0, 130, 50, 140), RawNum(10))
\* An element of empty text whose category attribute is None.
E_void == Element(Attr("none", ""), FALSE, Str(<<>>), RawNone, RawNone,
                  <<>>, RawNone)
\* An element of empty text between E_body and E_f11.
E_hollow == Element(Narrative, FALSE, Str(<<>>), RawNum(1), RawNone,
                    Box(0, 105, 50, 110), RawNone)
\* Font sizes 0 and 1.
E_f0 == Element(Narrative, FALSE, Str(<<"K", "k", ".">>), RawNum(1), RawNone,
                <<>>, RawNum(0))
E_f1 == Element(Narrative, FALSE, Str(<<"L", "l", ".">>), RawNum(1), RawNone,
                <<>>, RawNum(1))
E_emptytable == Element(Str("Table"), TRUE, Str(<<" ">>), RawNum(1), RawNone,
                        <<>>, RawNone)
E_longtable == Element(Str("Table"), TRUE, Str(T_LongTable), RawNum(1), RawNone,
                       Box(0, 200, 50, 300), RawNone)

ElementUniverse ==
    {E_title, E_body, E_table, E_f13, E_f11, E_far, E_bare, E_nocat,
     E_objtext, E_image, E_p2, E_blank, E_col2, E_f20, E_longtable, E_edge,
     E_emptytable, E_void, E_hollow, E_f0, E_f1}

\* Three-element lists beside every list of up to MaxElems elements.
Scenarios ==
    { <<E_title, E_body, E_table>>,
      <<E_image, E_body, E_f11>>,
      <<E_body, E_table, E_far>>,
      <<E_body, E_blank, E_image>>,
      <<E_body, E_f11, E_f13>>,
      <<E_body, E_image, E_emptytable>>,
      <<E_body, E_hollow, E_f11>>,
      <<E_f1, E_image, E_f20>> }

ElementLists ==
    Scenarios \cup UNION {[1..n -> ElementUniverse] : n \in 0..MaxElems}

\* Values of MAX_CHARS_NARRATIVE: one that makes short texts split, one "large".
NarrativeBudgets == {6, 40}

SpAlphabet == {"a", "A", ".", " "}
\* Texts with the other enders, openers and whitespace characters, and with
\* punctuation that ends no sentence.
SpSamples ==
    { <<"a", "!", " ", "(", "b">>, <<"a", "?", " ", "[", "b">>,
      <<"a", ".", "\n", "\t", "B">>, <<"a", ")", " ", "B", ".">>,
      <<"a", "!", "B">>, <<"a", ",", " ", "B">>, <<"a", "?", " ", "b">> }
SpTexts == SpSamples \cup UNION {[1..n -> SpAlphabet] : n \in 0..MaxLen}

\* ----------------------------------------------------------- specification
BuilderInit ==
    /\ sortable = <<>>
    /\ i = 1
    /\ blocks = <<>>
    /\ cur_text = <<>>
    /\ cur_meta = EmptyMeta
    /\ cur_src = <<>>
    /\ prev_page = None
    /\ prev_y1 = None
    /\ prev_font = None
    /\ fb_doc = <<>>
    /\ fb_open = FALSE
    /\ fb_pno = 0
    /\ fb_bno = 1
    /\ fb_failed = FALSE
    /\ out = <<>>
    /\ j = 1

SplitterIdle ==
    /\ sp_text = <<>>
    /\ sp_max = 1
    /\ sp_sents = <<>>
    /\ sp_out = <<>>
    /\ sp_pc = "idle"

NormalizerIdle ==
    /\ nm_e = E_bare
    /\ nm_page = None
    /\ nm_coords = NoCoords
    /\ nm_font = None
    /\ nm_pc = "idle"

\* One call of chunk_elements(elements, pdf_path).
Init ==
    /\ elements \in ElementLists
    /\ pdf_path \in {None, Some("doc.pdf")}
    /\ max_chars \in NarrativeBudgets
    /\ pc = "start"
    /\ BuilderInit
    /\ SplitterIdle
    /\ NormalizerIdle

Next ==
    \/ ReturnEmpty
    \/ SortElements
    \/ CategoryError
    \/ BoundaryElement
    \/ OrdinaryElement
    \/ FinalFlush
    \/ FallbackNoSource
    \/ FallbackImportError
    \/ FallbackOpenError
    \/ FallbackOpen
    \/ FallbackPageError
    \/ FallbackRegion
    \/ FallbackNextPage
    \/ FallbackReturn
    \/ AssembleBlock
    \/ Return

Spec == Init /\ [][Next]_vars

\* ---------------------------------------------- the splitter called alone
pipeline_vars == <<input_vars, pc, builder_vars, fallback_vars, out, j>>

CallSentences ==
    /\ sp_pc = "in"
    /\ sp_sents' = sentences(sp_text)
    /\ sp_pc' = "sentences"
    /\ UNCHANGED <<sp_text, sp_max, sp_out, pipeline_vars, normalizer_vars>>

CallSplitByLength ==
    /\ sp_pc = "sentences"
    /\ sp_out' = split_by_length(sp_text, sp_max)
    /\ sp_pc' = "split"
    /\ UNCHANGED <<sp_text, sp_max, sp_sents, pipeline_vars, normalizer_vars>>

SplitInit ==
    /\ sp_text \in SpTexts
    /\ sp_max \in 1..MaxChars
    /\ sp_sents = <<>>
    /\ sp_out = <<>>
    /\ sp_pc = "in"
    /\ elements = <<>>
    /\ pdf_path = None
    /\ max_chars = MaxChars
    /\ pc = "idle"
    /\ BuilderInit
    /\ NormalizerIdle

SplitNext == CallSentences \/ CallSplitByLength

SplitSpec == SplitInit /\ [][SplitNext]_vars

\* --------------------------------------------- the accessors called alone
\* Longest points list drawn as input of the accessor specification.
MaxPts == 2

\* Raw values of the page_number and page metadata keys.
RawPages == {RawNone, RawNum(0), RawNum(1), RawNum(2), RawBad}
RawFonts == {RawNone, RawNum(0), RawNum(10), RawBad}
\* Points: two well-formed pairs, a well-formed dict, a one-element tuple, a
\* value that is no dict and no sequence, and a pair of non-numbers.
RawPoints ==
    {Pt("pair", 1, 2), Pt("pair", 5, 3), Pt("dict", 4, 7), Pt("short", 9, 0),
     Pt("other", 0, 0), Pt("badnum", 0, 0)}
RawPointLists == UNION {[1..n -> RawPoints] : n \in 0..MaxPts}

CallGetPage ==
    /\ nm_pc = "in"
    /\ nm_page' = get_page(nm_e)
    /\ nm_pc' = "page"
    /\ UNCHANGED <<nm_e, nm_coords, nm_font, pipeline_vars, splitter_vars>>

CallGetCoords ==
    /\ nm_pc = "page"
    /\ nm_coords' = get_coords(nm_e)
    /\ nm_pc' = "coords"
    /\ UNCHANGED <<nm_e, nm_page, nm_font, pipeline_vars, splitter_vars>>

CallGetFontSize ==
    /\ nm_pc = "coords"
    /\ nm_font' = get_font_size(nm_e)
    /\ nm_pc' = "font"
    /\ UNCHANGED <<nm_e, nm_page, nm_coords, pipeline_vars, splitter_vars>>

NormInit ==
    /\ nm_e \in {Element(Narrative, FALSE, Str(T_Aa), pn, pg, pts, fs) :
                     pn \in RawPages, pg \in RawPages,
                     pts \in RawPointLists, fs \in RawFonts}
    /\ nm_page = None
    /\ nm_coords = NoCoords
    /\ nm_font = None
    /\ nm_pc = "in"
    /\ elements = <<>>
    /\ pdf_path = None
    /\ max_chars = MaxChars
    /\ pc = "idle"
    /\ BuilderInit
    /\ SplitterIdle

NormNext == CallGetPage \/ CallGetCoords \/ CallGetFontSize

NormSpec == NormInit /\ [][NormNext]_vars

\* ================================================================== claims
Returned == pc = "done"
\* The tuples processed so far by the fold.
Processed == IF pc = "start" THEN {} ELSE 1..(i - 1)
\* Blocks the Block Builder made (the fallback's carry no src).
BuiltBlocks == {m \in 1..Len(blocks) : blocks[m].src # <<>>}
InSeq(x, seq) == \E k \in 1..Len(seq) : seq[k] = x
CatText(a, b) == a \o <<" ">> \o b

\* ---- C1
ScenarioElements == <<E_title, E_body, E_table>>
ScenarioRun == Returned /\ elements = ScenarioElements /\ max_chars = 40

\* C1 as stated: the end-to-end scenario returns three chunks, the title
\* "Overview" and the body text "Sentence one. Sentence two." as separate
\* text chunks, then the table chunk.
C1_ThreeChunks ==
    ScenarioRun =>
        /\ Len(out) = 3
        /\ out[1].text = T_Overview /\ out[1].category = "text"
        /\ out[2].text = T_Body /\ out[2].category = "text"
        /\ out[3].text = T_Table /\ out[3].category = "table"

\* C1 amended: the end-to-end scenario returns two chunks, one text chunk
\* "Overview Sentence one. Sentence two." (no trigger separates the body from
\* the title it follows) and then the table chunk with the table's text.
C1_TitleAndBodyMerge ==
    ScenarioRun =>
        /\ Len(out) = 2
        /\ out[1].text = CatText(T_Overview, T_Body) /\ out[1].category = "text"
        /\ out[2].text = T_Table /\ out[2].category = "table"

C1_Witness == ScenarioRun /\ Len(out) = 2

\* ---- C2
\* The budget of a chunk, scaled by 10: max(800, 0.6 x narrativeMaxChars).
Budget10(c) ==
    IF c.category = "table"
    THEN (IF 6 * max_chars > 8000 THEN 6 * max_chars ELSE 8000)
    ELSE 10 * max_chars
\* The chunk is one whole sentence of the block it was split from.
IsOneSentence(c) == InSeq(c.text, sentences(blocks[c.blk].text))

\* C2: every chunk is within its budget (narrativeMaxChars for text, max(800,
\* 0.6 x narrativeMaxChars) for table) unless it is exactly one sentence of
\* its block that alone exceeds the budget.
C2_LengthBound ==
    \A k \in 1..Len(out) :
        \/ 10 * Len(out[k].text) <= Budget10(out[k])
        \/ IsOneSentence(out[k])

\* A run where a table block was split under the table budget and a text
\* chunk is a single sentence over the narrative budget.
C2_Witness ==
    /\ Returned
    /\ \E k \in 1..Len(out) : out[k].category = "text"
                               /\ 10 * Len(out[k].text) > Budget10(out[k])
    /\ \E k \in 1..Len(out) : out[k].category = "table"
                               /\ 10 * Len(blocks[out[k].blk].text) > Budget10(out[k])

\* ---- C3
IsInk(c) == c \notin WS
\* The non-whitespace characters of a text, in order.
Ink(t) == SelectSeq(t, IsInk)
\* Whitespace normalization: runs of whitespace collapsed, ends trimmed.
Normalize(t) ==
    LET st == Strip(t)
        keep == {k \in 1..Len(st) : st[k] \notin WS \/ st[k - 1] \notin WS}
        Nth(n) == CHOOSE k \in keep : Cardinality({x \in keep : x < k}) = n - 1
    IN  [n \in 1..Cardinality(keep) |->
            IF st[Nth(n)] \in WS THEN " " ELSE st[Nth(n)]]
SplitDone == sp_pc = "split"

\* C3: for a trimmed text and maxChars > 0, the segments of splitByLength
\* joined with single spaces have the text's non-whitespace characters in the
\* same order and equal the text after whitespace normalization.
C3_NoContentLoss ==
    (SplitDone /\ sp_text = Strip(sp_text)) =>
        /\ Ink(JoinSp(sp_out)) = Ink(sp_text)
        /\ Normalize(JoinSp(sp_out)) = Normalize(sp_text)

\* A trimmed text split into several segments, one of them over the budget.
C3_Witness ==
    /\ SplitDone
    /\ sp_text = Strip(sp_text)
    /\ Len(sp_out) >= 2
    /\ \E k \in 1..Len(sp_out) : Len(sp_out[k]) > sp_max

\* ---- C4
\* A boundary element, as the claim names it.
ClaimBoundary(e) ==
    \/ e.is_table
    \/ e.category.k = "str"
       /\ Lower(e.category.v) \in {"table", "image", "figure", "pagebreak"}
ProcessedBoundaries == {k \in Processed : ClaimBoundary(sortable[k].e)}
\* src holds nothing of boundary element k and nothing from both sides of it.
Isolated(src, k) ==
    /\ ~InSeq(k, src)
    /\ ~\E a, b \in 1..Len(src) : src[a] < k /\ k < src[b]

\* C4: a boundary element reached by the fold is emitted as its own singleton
\* block; the open text block is flushed before it (nothing sorted before it
\* is still in the open buffer, and the blocks of earlier elements precede
\* its block); the open buffer is empty right after it; and no text block
\* holds the boundary element's text or text from both sides of it.
C4_BoundaryIsolation ==
    /\ \A k \in ProcessedBoundaries :
          /\ \E m \in BuiltBlocks :
                /\ blocks[m].src = <<k>>
                /\ blocks[m].category # "text"
                /\ \A n \in BuiltBlocks \ {m} :
                      \A a \in 1..Len(blocks[n].src) :
                          (blocks[n].src[a] < k) <=> (n < m)
          /\ \A n \in BuiltBlocks :
                blocks[n].category = "text" => Isolated(blocks[n].src, k)
          /\ \A a \in 1..Len(cur_src) : cur_src[a] > k
    /\ (pc = "fold" /\ i - 1 \in ProcessedBoundaries) =>
          cur_text = <<>> /\ cur_src = <<>>

\* An ordinary element, a boundary element and an ordinary element again,
\* the first and the last both emitted in text blocks.
C4_Witness ==
    /\ Returned
    /\ 2 \in ProcessedBoundaries
    /\ \E m, n \in BuiltBlocks :
          /\ blocks[m].category = "text" /\ blocks[m].src = <<1>>
          /\ blocks[n].category = "text" /\ blocks[n].src = <<3>>

\* ---- C5
\* The sort key the claim names: (page ?? 0, y0 ?? 0.0, x0 ?? 0.0).
ClaimKey(e) ==
    <<OrZero(get_page(e)), OrZero(get_coords(e).y0), OrZero(get_coords(e).x0)>>
LexLess(a, b) ==
    \/ a[1] < b[1]
    \/ a[1] = b[1] /\ a[2] < b[2]
    \/ a[1] = b[1] /\ a[2] = b[2] /\ a[3] < b[3]
\* sortable is the stable ascending sort of the input elements.
StablySorted ==
    /\ Len(sortable) = Len(elements)
    /\ {sortable[k].pos : k \in 1..Len(sortable)} = 1..Len(elements)
    /\ \A k \in 1..Len(sortable) : sortable[k].e = elements[sortable[k].pos]
    /\ \A k, l \in 1..Len(sortable) :
          k < l =>
              \/ LexLess(ClaimKey(sortable[k].e), ClaimKey(sortable[l].e))
              \/ /\ ClaimKey(sortable[k].e) = ClaimKey(sortable[l].e)
                 /\ sortable[k].pos < sortable[l].pos
\* The blocks' elements, block after block, are in sorted order.
BlocksInSortedOrder ==
    /\ \A m \in BuiltBlocks :
          \A a, b \in 1..Len(blocks[m].src) :
              a < b => blocks[m].src[a] < blocks[m].src[b]
    /\ \A m, n \in BuiltBlocks :
          m < n => blocks[m].src[Len(blocks[m].src)] < blocks[n].src[1]
\* The segments a block is due, in packing order.
DueTexts(b) ==
    IF b.category = "table" /\ IsStr(b.text) /\ Strip(b.text) # <<>>
    THEN split_by_length(Strip(b.text), TableBudget(max_chars))
    ELSE IF b.category = "text" /\ Strip(b.text) # <<>>
    THEN split_by_length(Strip(b.text), max_chars)
    ELSE <<>>
TextsFrom(m) ==
    LET cs == SelectSeq(out, LAMBDA c : c.blk = m)
    IN  [k \in 1..Len(cs) |-> cs[k].text]

\* C5: the elements are processed in stable ascending order of (page ?? 0,
\* y0 ?? 0, x0 ?? 0); the blocks follow that order; the chunks follow the
\* blocks' order, the segments of one block consecutive and in packing order.
C5_OrderPreservation ==
    /\ (pc \notin {"start", "idle"} /\ elements # <<>>) => StablySorted
    /\ BlocksInSortedOrder
    /\ \A k, l \in 1..Len(out) : k < l => out[k].blk <= out[l].blk
    /\ pc \in {"assemble", "done"} =>
          \A m \in 1..(j - 1) : TextsFrom(m) = DueTexts(blocks[m])

\* Two elements with equal sort keys given in an order the sort must keep,
\* a third sorted before both, and one block split into several chunks.
C5_Witness ==
    /\ Returned
    /\ \E k \in 1..(Len(sortable) - 1) :
          /\ ClaimKey(sortable[k].e) = ClaimKey(sortable[k + 1].e)
          /\ sortable[k].e # sortable[k + 1].e
    /\ \E k \in 1..Len(sortable) : sortable[k].pos # k
    /\ \E k \in 1..(Len(out) - 1) : out[k].blk = out[k + 1].blk

\* ---- C6
\* The first element put into built block m.
FirstOf(m) == sortable[blocks[m].src[1]]
BuiltTextBlocks == {m \in BuiltBlocks : blocks[m].category = "text"}

\* C6: every text block the Block Builder emits carries the bounding box and
\* the font size of the first element put into it, and that element's page
\* when it is known.
C6_MetaIsFirstElement ==
    \A m \in BuiltTextBlocks :
        LET md == blocks[m].metadata
            e == FirstOf(m).e
        IN  /\ md.x0 = get_coords(e).x0 /\ md.y0 = get_coords(e).y0
            /\ md.x1 = get_coords(e).x1 /\ md.y1 = get_coords(e).y1
            /\ md.font_size = get_font_size(e)
            /\ Known(get_page(e)) => md.page_number = get_page(e)

\* ---- C7
\* C7: a block or chunk made from an element without a well-formed page
\* number has page_number None, never 0.
C7_MissingPageIsNone ==
    /\ \A m \in BuiltBlocks :
          IsNone(get_page(FirstOf(m).e)) => IsNone(blocks[m].metadata.page_number)
    /\ \A k \in 1..Len(out) :
          (out[k].blk \in BuiltBlocks /\ IsNone(get_page(FirstOf(out[k].blk).e)))
              => IsNone(out[k].metadata.page_number)

\* ---- C8
\* C8: the Block Builder never raises, whatever the elements' category, text
\* and metadata are.
C8_BuilderNeverRaises == pc # "raised_builder"

\* ---- C9
FallbackReturned == pc \in {"assemble", "done"}
\* C9: when anything failed while the raw page source was opened or read,
\* the Fallback Extractor's result is empty.
C9_AllOrNothing == (fb_failed /\ FallbackReturned) => blocks = <<>>

\* ---- C10
OrdinaryAt(k) == ~ClaimBoundary(sortable[k].e)
FontAt(k) == get_font_size(sortable[k].e)
PageAt(k) == get_page(sortable[k].e)
HasText(k) == Strip(TextOf(sortable[k].e)) # <<>>
\* Adjacent processed ordinary elements on one known page, font sizes known.
FontPairs ==
    {k \in Processed : /\ k + 1 \in Processed
                       /\ OrdinaryAt(k) /\ OrdinaryAt(k + 1)
                       /\ Known(PageAt(k)) /\ PageAt(k) = PageAt(k + 1)
                       /\ Known(FontAt(k)) /\ Known(FontAt(k + 1))}
\* Both elements are in one block (emitted or still open).
SameBlock(a, b) ==
    \/ InSeq(a, cur_src) /\ InSeq(b, cur_src)
    \/ \E m \in BuiltBlocks : InSeq(a, blocks[m].src) /\ InSeq(b, blocks[m].src)
\* The gap trigger cannot fire between k and k + 1.
NoGap(k) ==
    \/ IsNone(get_coords(sortable[k + 1].e).y0)
    \/ /\ Known(get_coords(sortable[k].e).y1)
       /\ Val(get_coords(sortable[k + 1].e).y0)
              - Val(get_coords(sortable[k].e).y1) <= 30

\* C10: of two adjacent same-page ordinary elements with known font sizes,
\* the second starts a new block when its size is at least 2.0 above the
\* first's; it stays in the first's block when the size is below both
\* thresholds, it is no title and the gap does not exceed the threshold.
C10_FontJump ==
    \A k \in FontPairs :
        LET prev == Val(FontAt(k))
            cur == Val(FontAt(k + 1))
        IN  /\ cur - prev >= 2 => ~SameBlock(k, k + 1)
            /\ ( /\ cur - prev < 2
                 /\ 10 * cur < 12 * prev
                 /\ CatOf(sortable[k + 1].e) \notin {"title", "subtitle", "header"}
                 /\ NoGap(k)
                 /\ HasText(k) /\ HasText(k + 1) )
               => SameBlock(k, k + 1)

\* Sizes 10, 11 and 13 in a row: the first two share a block, the third
\* starts its own.
C10_Witness ==
    /\ Returned
    /\ \E k \in FontPairs : /\ Val(FontAt(k)) = 10 /\ Val(FontAt(k + 1)) = 11
                            /\ \E m \in BuiltBlocks : blocks[m].src = <<k, k + 1>>
    /\ \E k \in FontPairs : /\ Val(FontAt(k + 1)) - Val(FontAt(k)) >= 2
                            /\ ~SameBlock(k, k + 1)

\* ---- C11
Y0At(k) == get_coords(sortable[k].e).y0
Y1At(k) == get_coords(sortable[k].e).y1
\* Adjacent processed ordinary elements on one known page, the first's
\* bottom and the second's top known.
GapPairs ==
    {k \in Processed : /\ k + 1 \in Processed
                       /\ OrdinaryAt(k) /\ OrdinaryAt(k + 1)
                       /\ Known(PageAt(k)) /\ PageAt(k) = PageAt(k + 1)
                       /\ Known(Y1At(k)) /\ Known(Y0At(k + 1))}
GapAt(k) == Val(Y0At(k + 1)) - Val(Y1At(k))
\* Neither the title trigger nor the font trigger can fire at k + 1.
NoOtherTrigger(k) ==
    /\ CatOf(sortable[k + 1].e) \notin {"title", "subtitle", "header"}
    /\ \/ IsNone(FontAt(k + 1))
       \/ /\ Known(FontAt(k))
          /\ Val(FontAt(k + 1)) - Val(FontAt(k)) < 2
          /\ 10 * Val(FontAt(k + 1)) < 12 * Val(FontAt(k))

\* C11: of two adjacent same-page ordinary elements with the first's bottom
\* and the second's top known, the second starts a new block when the gap
\* between them is above 30, and stays in the first's block when the gap is
\* 30 or less and neither the title nor the font trigger fires.
C11_GapTrigger ==
    \A k \in GapPairs :
        /\ GapAt(k) > 30 => ~SameBlock(k, k + 1)
        /\ (GapAt(k) <= 30 /\ NoOtherTrigger(k) /\ HasText(k) /\ HasText(k + 1))
              => SameBlock(k, k + 1)

\* A gap of exactly 30 left the two elements in one emitted block.
C11_Witness ==
    /\ Returned
    /\ \E k \in GapPairs : /\ GapAt(k) = 30
                           /\ \E m \in BuiltBlocks : blocks[m].src = <<k, k + 1>>

\* ---- C12
DROPPED_CATS == {"image", "figure", "pagebreak"}
\* The block yields no chunk: an image, figure or pagebreak block, or a
\* table block of blank text.
YieldsNothing(b) ==
    \/ b.category \in DROPPED_CATS
    \/ b.category = "table" /\ Strip(b.text) = <<>>

\* C12: every chunk of the output has category "text" or "table" and a
\* non-blank text, and none comes from an image, figure or pagebreak block
\* or from a table block of blank text.
C12_EmissionPolicy ==
    \A k \in 1..Len(out) :
        /\ out[k].category \in {"text", "table"}
        /\ Strip(out[k].text) # <<>>
        /\ out[k].blk \in 1..Len(blocks)
        /\ ~YieldsNothing(blocks[out[k].blk])

\* A run returned chunks after passing over an image block and an empty
\* table block.
C12_Witness ==
    /\ Returned
    /\ out # <<>>
    /\ \E m \in 1..Len(blocks) : blocks[m].category = "image"
    /\ \E m \in 1..Len(blocks) :
          blocks[m].category = "table" /\ Strip(blocks[m].text) = <<>>

\* ---- C13
\* Every element of the input has an empty text.
OnlyEmptyTexts ==
    \A k \in 1..Len(elements) :
        elements[k].text.k = "str" /\ elements[k].text.v = <<>>

\* C13: a call with no elements returns an empty output at once, with or
\* without a raw page source; a call with only empty-text elements and no
\* raw page source never raises and returns an empty output.
C13_DegenerateInput ==
    /\ elements = <<>> => (pc \in {"start", "done"} /\ out = <<>>)
    /\ (OnlyEmptyTexts /\ IsNone(pdf_path))
          => /\ pc \notin {"raised_builder", "raised_assembler"}
             /\ Returned => out = <<>>

\* ---- C14
PageCalled == nm_pc \in {"page", "coords", "font"}
\* C14: page(e) is the page_number value whenever that is a well-formed
\* integer, 0 included; with no page_number it is the page value when that
\* is well-formed; with no well-formed value under either key it is None.
C14_PageTotal ==
    PageCalled =>
        LET pn == nm_e.page_number
            pg == nm_e.page
        IN  /\ pn.k = "num" => nm_page = Some(pn.v)
            /\ (pn.k = "none" /\ pg.k = "num") => nm_page = Some(pg.v)
            /\ (pn.k # "num" /\ pg.k # "num") => nm_page = None

\* ---- C15
CoordsCalled == nm_pc \in {"coords", "font"}
WellFormedPoint(p) == p.kind \in {"dict", "pair"}
\* (min x, min y, max x, max y) over every point of the list
BoxOfAll(pts) ==
    [x0 |-> Some(SetMin({pts[k].x : k \in 1..Len(pts)})),
     y0 |-> Some(SetMin({pts[k].y : k \in 1..Len(pts)})),
     x1 |-> Some(SetMax({pts[k].x : k \in 1..Len(pts)})),
     y1 |-> Some(SetMax({pts[k].y : k \in 1..Len(pts)}))]

\* C15: coords(e) is all-None when the points list is missing or empty or
\* holds any malformed point, and otherwise the box over every point.
C15_CoordsAllOrNone ==
    CoordsCalled =>
        LET pts == nm_e.points
        IN  IF pts = <<>> \/ \E k \in 1..Len(pts) : ~WellFormedPoint(pts[k])
            THEN nm_coords = NoCoords
            ELSE nm_coords = BoxOfAll(pts)

\* ---- C16
RECURSIVE Concat(_)
Concat(segs) == IF segs = <<>> THEN <<>> ELSE Head(segs) \o Concat(Tail(segs))
NoEnder(t) == \A k \in 1..Len(t) : t[k] \notin {".", "!", "?"}

\* C16: a text longer than maxChars without any sentence-ending punctuation
\* is returned as consecutive slices of maxChars characters, the last
\* possibly shorter, whose concatenation is the text.
C16_FixedSizeFallback ==
    (SplitDone /\ Len(sp_text) > sp_max /\ NoEnder(sp_text)) =>
        /\ Concat(sp_out) = sp_text
        /\ \A k \in 1..Len(sp_out) :
              /\ Len(sp_out[k]) <= sp_max
              /\ k < Len(sp_out) => Len(sp_out[k]) = sp_max

\* ---- C17
\* The segments are the space-joined runs of sentences that start at the
\* sentences first[1] = 1 < first[2] < ..., and every run but the last is
\* closed because the next sentence would not fit.
GreedyRuns(first) ==
    LET n == Len(sp_sents)
        last(k) == IF k < Len(sp_out) THEN first[k + 1] - 1 ELSE n
    IN  /\ first[1] = 1
        /\ \A k \in 1..Len(sp_out) :
              /\ first[k] <= last(k)
              /\ sp_out[k] = JoinSp(SubSeq(sp_sents, first[k], last(k)))
              /\ k < Len(sp_out) =>
                    Len(sp_out[k]) + 1 + Len(sp_sents[first[k + 1]]) > sp_max

\* C17: a text over maxChars with sentences is returned as maximal
\* space-joined runs of consecutive sentences covering each sentence once in
\* order; a text within maxChars is returned alone and unchanged.
C17_GreedyPacking ==
    SplitDone =>
        /\ Len(sp_text) <= sp_max => sp_out = <<sp_text>>
        /\ (Len(sp_text) > sp_max /\ sp_sents # <<>>) =>
              /\ sp_out # <<>>
              /\ \E first \in [1..Len(sp_out) -> 1..Len(sp_sents)] :
                    GreedyRuns(first)

\* Three sentences packed into a run of two and a run of one.
C17_Witness ==
    /\ SplitDone
    /\ Len(sp_text) > sp_max
    /\ Len(sp_sents) = 3
    /\ Len(sp_out) = 2
    /\ sp_out[1] = JoinSp(SubSeq(sp_sents, 1, 2))

\* ---- C18
\* The texts of the elements at the sorted positions src.
TextsOfRun(src) == [k \in 1..Len(src) |-> TextOf(sortable[src[k]].e)]
\* src is a run of consecutive sorted positions, all of ordinary elements.
OrdinaryRun(src) ==
    /\ src # <<>>
    /\ \A k \in 1..Len(src) : src[k] = src[1] + k - 1 /\ OrdinaryAt(src[k])
\* The built text blocks holding the element at sorted position k.
Holders(k) == {m \in BuiltTextBlocks : InSeq(k, blocks[m].src)}
\* The element at k is in the open buffer or in exactly one emitted block.
HeldOnce(k) ==
    IF InSeq(k, cur_src) THEN Holders(k) = {} ELSE Cardinality(Holders(k)) = 1

BuilderReturns == pc = "fold" /\ pc' \in {"fallback", "assemble"}
\* The step that hands control to the Fallback Extractor.
FallbackConsulted == pc # "fallback" /\ pc' = "fallback"
\* The steps of the Fallback Extractor.
InFallback == pc \in {"fallback", "fb_read"}

\* C19: for a non-empty element list the Fallback Extractor is consulted in
\* exactly the step in which the Block Builder returns zero blocks; when the
\* builder returns at least one block the assembler starts at once, on
\* blocks that no later step changes.
C19_FallbackSelection ==
    [][ /\ FallbackConsulted =>
              (BuilderReturns /\ elements # <<>> /\ blocks' = <<>>)
        /\ BuilderReturns => (pc' = "fallback" <=> blocks' = <<>>)
        /\ ~InFallback => (blocks' = blocks \/ pc = "fold" \/ pc = "start")
        /\ ~InFallback => UNCHANGED fallback_vars ]_vars

\* An image alone with a raw page source at hand: the builder's one block is
\* dropped, the output is empty and the source was never opened.
C19_Witness ==
    /\ Returned
    /\ Known(pdf_path)
    /\ Len(blocks) = 1 /\ blocks[1].category = "image" /\ blocks[1].src = <<1>>
    /\ out = <<>>
    /\ ~fb_open

\* ---- C20
\* current - previous >= 2.0 or current / max(previous, epsilon) >= 1.2, on
\* integer sizes: below epsilon the quotient is by epsilon.
FormulaFires(prev, cur) ==
    \/ cur - prev >= 2
    \/ IF prev >= 1 THEN 10 * cur >= 12 * prev ELSE cur >= 1

\* C20: of two adjacent same-page ordinary elements with known font sizes,
\* a previous size of 0 included, the second starts a new block whenever the
\* formula fires, and stays in the first's block when it does not fire and
\* neither the title nor the gap trigger does.
C20_FontJumpFormula ==
    \A k \in FontPairs :
        LET fires == FormulaFires(Val(FontAt(k)), Val(FontAt(k + 1)))
        IN  /\ fires => ~SameBlock(k, k + 1)
            /\ ( /\ ~fires
                 /\ CatOf(sortable[k + 1].e) \notin {"title", "subtitle", "header"}
                 /\ NoGap(k)
                 /\ HasText(k) /\ HasText(k + 1) )
               => SameBlock(k, k + 1)

\* ---- C21
\* page/bbox/font of the element at sorted position k, as its accessors give
\* them.
MetaOfElement(k) ==
    LET e == sortable[k].e
        c == get_coords(e)
    IN  BlockMeta(get_page(e), c.x0, c.y0, c.x1, c.y1, get_font_size(e))
IsHeading(k) == CatOf(sortable[k].e) \in {"title", "subtitle", "header"}
\* Trigger (a) or (b) holds for the ordinary element at k.
PageOrHeadingTrigger(k) ==
    \/ k = 1
    \/ k > 1 /\ PageAt(k) # PageAt(k - 1)
    \/ IsHeading(k)
\* The metadata of the block, open or emitted, that the element at k opened.
OpenedWith(k, md) ==
    /\ (cur_src # <<>> /\ cur_src[1] = k) => cur_meta = md
    /\ \A m \in BuiltTextBlocks : blocks[m].src[1] = k => blocks[m].metadata = md

\* C21: a processed ordinary element that is the first element, or whose
\* page differs from the previous element's, or that is a heading, is not in
\* the previous element's block, and the block it opened carries its
\* metadata.
C21_TriggersSufficient ==
    \A k \in Processed :
        (OrdinaryAt(k) /\ PageOrHeadingTrigger(k)) =>
            /\ k > 1 => ~SameBlock(k - 1, k)
            /\ OpenedWith(k, MetaOfElement(k))

\* ---- C22
\* The step that processes the ordinary element at sorted position i.
OrdinaryProcessed ==
    /\ pc = "fold"
    /\ i <= Len(sortable)
    /\ i' = i + 1
    /\ OrdinaryAt(i)

\* C22: the step that processes an ordinary element leaves previous page
\* equal to the element's page, and previous y1 and previous font equal to
\* the element's y1 and font size when those are known and unchanged when
\* they are not.
C22_TrackerAdvance ==
    [][ OrdinaryProcessed =>
          /\ prev_page' = PageAt(i)
          /\ prev_y1' = IF Known(Y1At(i)) THEN Y1At(i) ELSE prev_y1
          /\ prev_font' = IF Known(FontAt(i)) THEN FontAt(i) ELSE prev_font ]_vars

\* ---- C23
SentencesDone == sp_pc \in {"sentences", "split"}
\* t[a..b] is a whitespace run right after '.', '!' or '?' and right before
\* an uppercase letter, '(' or '['.
IsCutRun(t, a, b) ==
    /\ 1 < a /\ a <= b /\ b < Len(t)
    /\ \A k \in a..b : t[k] \in {" ", "\n", "\t"}
    /\ t[a - 1] \in {".", "!", "?"}
    /\ t[b + 1] \in UPPER \cup {"(", "["}
\* frags are the pieces of t from position from on, in order, cut at every
\* cut run and nowhere else.
RECURSIVE CutExactly(_, _, _)
CutExactly(frags, t, from) ==
    /\ frags # <<>>
    /\ LET f == Head(frags)
           last == from + Len(f) - 1
       IN  /\ f # <<>>
           /\ last <= Len(t)
           /\ f = SubSeq(t, from, last)
           /\ \A a \in from..last : \A b \in a..last : ~IsCutRun(t, a, b)
           /\ IF Len(frags) = 1 THEN last = Len(t)
              ELSE \E b \in (last + 1)..Len(t) :
                      /\ IsCutRun(t, last + 1, b)
                      /\ CutExactly(Tail(frags), t, b + 1)

\* C23: the sentences of a text whose trimmed form is empty are none;
\* otherwise they are the trimmed text cut at exactly the whitespace runs
\* between sentence-ending punctuation and an uppercase letter or opening
\* bracket, each trimmed and non-empty, in order.
C23_SplitSentences ==
    SentencesDone =>
        IF Strip(sp_text) = <<>> THEN sp_sents = <<>>
        ELSE /\ CutExactly(sp_sents, Strip(sp_text), 1)
             /\ \A k \in 1..Len(sp_sents) : Strip(sp_sents[k]) = sp_sents[k]

\* A text cut once, at the run before an uppercase letter, and left whole
\* at a run before a lowercase one.
C23_Witness ==
    /\ SentencesDone
    /\ Len(sp_sents) = 2
    /\ \E k \in 2..Len(sp_sents[1]) :
          sp_sents[1][k] = " " /\ sp_sents[1][k - 1] = "."

\* ---- C24
\* C24: whenever the Fallback Extractor has returned, the raw page source it
\* opened is no longer held.
C24_SourceReleased == FallbackReturned => ~fb_open

\* ---- C25
\* The step that processes the boundary element at sorted position i.
BoundaryProcessed ==
    /\ pc = "fold"
    /\ i <= Len(sortable)
    /\ i' = i + 1
    /\ ~OrdinaryAt(i)
\* The step that processes an ordinary, non-heading element right after a
\* boundary element of the same sort-key page that has neither y1 nor font
\* size.
AfterBareBoundary ==
    /\ OrdinaryProcessed
    /\ i > 1
    /\ ~OrdinaryAt(i - 1)
    /\ IsNone(Y1At(i - 1)) /\ IsNone(FontAt(i - 1))
    /\ sortable[i].page = sortable[i - 1].page
    /\ ~IsHeading(i)

\* C25: the step that processes a boundary element leaves previous page, y1
\* and font equal to the element's sort-key page, y1 and font size, known or
\* not; the next ordinary element, when that boundary element has neither y1
\* nor font size and no other trigger holds, opens no block.
C25_BoundaryOverwrites ==
    [][ /\ BoundaryProcessed =>
              /\ prev_page' = Some(sortable[i].page)
              /\ prev_y1' = Y1At(i)
              /\ prev_font' = FontAt(i)
        /\ AfterBareBoundary =>
              /\ blocks' = blocks
              /\ cur_meta' = cur_meta
              /\ cur_src' = Append(cur_src, i) ]_vars

\* Fonts 1 and 20 with an image of no y1 and no font between them: the font
\* of 1 was erased and the element of font 20 opened no block of its own.
C25_Witness ==
    /\ Returned
    /\ Len(sortable) = 3
    /\ FontAt(1) = Some(1) /\ OrdinaryAt(1)
    /\ ~OrdinaryAt(2) /\ IsNone(Y1At(2)) /\ IsNone(FontAt(2))
    /\ FontAt(3) = Some(20) /\ OrdinaryAt(3)
    /\ \E m \in BuiltTextBlocks :
          blocks[m].src = <<3>> /\ blocks[m].metadata = EmptyMeta

====
